---- MODULE Spec2Model ----
(***************************************************************************)
(* State machine of app/main.py: the in-memory Item State Table `items`,   *)
(* the process-wide `total_co2`, and the three document-store collections  *)
(* the handlers write (item records, session ledger, logout archive).      *)
(* One action per route handler.                                           *)
(***************************************************************************)
EXTENDS Integers, Sequences, FiniteSets, TLC

\* ------------------------------------------------------------------ bounds
MaxCount == 2        \* an increment is not taken past this count
MaxSessions == 2     \* a commit is not taken with this many records in the ledger
MaxArchive == 1      \* a logout is not taken with this many archive entries
MaxRequests == 7     \* the number of requests handled in a run
MaxConcRequests == 5 \* the number of requests started in a run with interleaved handlers

\* ------------------------------------------------------------------ state
VARIABLES
    items,        \* module-level `items`: sequence of categories, each with its items
    total_co2,    \* module-level `total_co2`: <<>> while unbound, <<v>> once GET /main ran
    db_items,     \* document store, item records (mongo.co2)
    db_sessions,  \* document store, Session Ledger
    db_logs,      \* document store, logout archive
    last,         \* the request handled last and how it ended
    rt,           \* observer: an increment and the decrement that directly follows it
    requests,     \* observer: the number of requests handled so far
    cm,           \* the commit in flight (interleaved handlers): position and locals
    lg            \* the logout in flight (interleaved handlers): position and locals

vars == <<items, total_co2, db_items, db_sessions, db_logs, last, rt, requests, cm, lg>>

\* --------------------------------------------------------- catalog / input
Item(name, base_co2) == [name |-> name, count |-> 0, co2 |-> 0, base_co2 |-> base_co2]

\* What get_data_grouped_by_category returned at module load: two categories;
\* the name "A" is used by an item of each of them (names are unique within a
\* category, nothing makes them unique across categories).
Catalog ==
    << [category |-> "c1", items |-> <<Item("A", 2), Item("B", 3)>>],
       [category |-> "c2", items |-> <<Item("A", 1)>>] >>

ItemNames == {"A", "B", "nosuch"}        \* form field item_name
FormActions == {"increment", "decrement", "other"}   \* form field action
UserNames == {"u1"}                      \* cookie user_name

\* ---------------------------------------------------------------- helpers
Max(a, b) == IF a >= b THEN a ELSE b

RECURSIVE Flatten(_)
\* `for category in items: for item in category['items']`: the items in
\* iteration order, each with its category.
Flatten(its) ==
    IF its = <<>> THEN <<>>
    ELSE [i \in DOMAIN its[1].items |->
            [category |-> its[1].category,
             name |-> its[1].items[i].name,
             count |-> its[1].items[i].count,
             co2 |-> its[1].items[i].co2]]
         \o Flatten(Tail(its))

RECURSIVE SumCo2(_)
SumCo2(rows) == IF rows = <<>> THEN 0 ELSE rows[1].co2 + SumCo2(Tail(rows))

\* sum(item.get('co2', 0) for category in items for item in category['items'])
sum_co2(its) == SumCo2(Flatten(its))

\* variant: on a miss the loop variable, left on the last item, is used
FirstMatch_leaked(its, item_name) ==
    IF \E i \in DOMAIN its : its[i].name = item_name
    THEN CHOOSE i \in DOMAIN its :
            /\ its[i].name = item_name
            /\ \A j \in 1..(i - 1) : its[j].name # item_name
    ELSE Len(its)

\* index of the first item of the list with that name, 0 when there is none
FirstMatch(its, item_name) ==
    IF \E i \in DOMAIN its : its[i].name = item_name
    THEN CHOOSE i \in DOMAIN its :
            /\ its[i].name = item_name
            /\ \A j \in 1..(i - 1) : its[j].name # item_name
    ELSE 0

\* ------------------------------------------------- increment / decrement
\* variant: the decrement is not clamped at 0
new_count_unclamped(action, count) ==
    IF action = "increment" THEN count + 1
    ELSE IF action = "decrement" THEN count - 1
    ELSE count

new_count(action, count) ==
    IF action = "increment" THEN count + 1
    ELSE IF action = "decrement" THEN Max(0, count - 1)
    ELSE count

\* variant: the per-unit value is stored, not the product
recompute_co2_unit(count, base_co2) == base_co2

recompute_co2(count, base_co2) == count * base_co2

\* variant: co2 is accumulated (`co2 += base_co2`), not recomputed
update_matched_item_accumulate(item, action) ==
    [item EXCEPT !.count = new_count(action, item.count),
                 !.co2 = item.co2 + item.base_co2]

update_matched_item(item, action) ==
    [item EXCEPT !.count = new_count(action, item.count),
                 !.co2 = recompute_co2(new_count(action, item.count), item.base_co2)]

\* the inner loop: the first item with the name is updated, then `break`
update_category(cat, action, item_name) ==
    IF FirstMatch(cat.items, item_name) = 0 THEN cat
    ELSE [cat EXCEPT !.items[FirstMatch(cat.items, item_name)] =
                        update_matched_item(@, action)]

\* the outer loop: `break` leaves the inner loop only, every category is scanned
update_items(its, action, item_name) ==
    [c \in DOMAIN its |-> update_category(its[c], action, item_name)]

\* ----------------------------------------------------------- local reset
\* variant: the count is reset, the co2 is not
reset_item_count_only(item) == [item EXCEPT !.count = 0]

reset_item(item) == [item EXCEPT !.count = 0, !.co2 = 0]

reset_items(its) ==
    [c \in DOMAIN its |->
        [its[c] EXCEPT !.items = [i \in DOMAIN its[c].items |-> reset_item(its[c].items[i])]]]

\* ------------------------------------------- document store (mongo.Co2)
\* insert_items(items): the item records start as a copy of the seeded table
mongo_insert_items(its) == its

\* update_item(category, name, count, co2): the record of that category and
\* name takes the given count and co2
mongo_update_item(db, category, name, count, co2) ==
    [c \in DOMAIN db |->
        IF db[c].category = category
           /\ \A d \in 1..(c - 1) : db[d].category # category
           /\ FirstMatch(db[c].items, name) # 0
        THEN [db[c] EXCEPT !.items[FirstMatch(db[c].items, name)] =
                              [@ EXCEPT !.count = count, !.co2 = co2]]
        ELSE db[c]]

\* reset_counts(items): every persisted item record back to zero
mongo_reset_counts(db, its) ==
    [c \in DOMAIN db |->
        [db[c] EXCEPT !.items =
            [i \in DOMAIN db[c].items |-> [db[c].items[i] EXCEPT !.count = 0, !.co2 = 0]]]]

\* insert_session(total_co2, equivalents, exchanged_items)
mongo_insert_session(ledger, total, equivalents, exchanged_items) ==
    Append(ledger, [total_co2 |-> total,
                    equivalents |-> equivalents,
                    exchanged_items |-> exchanged_items])

\* clear_sessions(): deletes every document of the sessions collection
mongo_clear_sessions(ledger) == <<>>

\* log_out(user_name, sessions, sorted_items, total)
mongo_log_out(logs, user_name, session_count, sorted_items, totals) ==
    Append(logs, [user_name |-> user_name,
                  sessions |-> session_count,
                  sorted_items |-> sorted_items,
                  total |-> totals])

\* ------------------------------------------------------ utilities (AppUtils)
\* calculate_equivalents: a pure function of the total; its conversion
\* factors are configuration, so its value is kept as a term over the total
calculate_equivalents(total) == [of |-> total]

RECURSIVE SumTotals(_)
SumTotals(ledger) ==
    IF ledger = <<>> THEN 0 ELSE ledger[1].total_co2 + SumTotals(Tail(ledger))

\* calculate_total(sessions) -> (totals, session_count)
calculate_total(ledger) ==
    [totals |-> [total_co2 |-> SumTotals(ledger),
                 equivalents |-> calculate_equivalents(SumTotals(ledger))],
     session_count |-> Len(ledger)]

\* rearrange_updated_items: the per-category lists as one list
rearrange_updated_items(db) == Flatten(db)

RECURSIVE InsertByCount(_, _)
\* row goes after every row whose count is >= its own (stable, descending)
InsertByCount(sorted, row) ==
    IF sorted = <<>> THEN <<row>>
    ELSE IF sorted[1].count >= row.count
         THEN <<sorted[1]>> \o InsertByCount(Tail(sorted), row)
         ELSE <<row>> \o sorted

RECURSIVE SortFrom(_, _)
SortFrom(sorted, rows) ==
    IF rows = <<>> THEN sorted
    ELSE SortFrom(InsertByCount(sorted, rows[1]), Tail(rows))

\* sort_updated_items: by count, descending, ties in input order
sort_updated_items(rows) == SortFrom(<<>>, rows)

\* ------------------------------------------------------------------ commit
\* the rows the first loop of renew persists and collects, in iteration order
exchanged(its) == SelectSeq(Flatten(its), LAMBDA r : r.count > 0 \/ r.co2 > 0)

\* exc_items: category -> list of {name, count, co2}, a key per category that
\* has a collected row
exc_items(rows) ==
    [c \in {rows[i].category : i \in DOMAIN rows} |->
        LET mine == SelectSeq(rows, LAMBDA r : r.category = c)
        IN [i \in DOMAIN mine |->
               [name |-> mine[i].name, count |-> mine[i].count, co2 |-> mine[i].co2]]]

\* variant: the update_item call is missing from the loop
persist_nothing(db, rows, k) == db

RECURSIVE persist(_, _, _)
\* the item records after the first k update_item calls of the loop
persist(db, rows, k) ==
    IF k = 0 THEN db
    ELSE mongo_update_item(persist(db, rows, k - 1),
                           rows[k].category, rows[k].name, rows[k].count, rows[k].co2)

\* variant: `>=` for `>`
session_due_zero(total) == total[1] >= 0

\* `if total_co2 > 0`, on the process-wide total_co2
session_due(total) == total[1] > 0

\* variant: the reset sits in a `finally`
items_after_error_reset(its) == reset_items(its)

\* the table when the try block raised: `except` logs and re-raises
items_after_error(its) == its

\* ---------------------------------------------------------------- observers
Seen(op, action, item_name, outcome, n) ==
    [op |-> op, action |-> action, item_name |-> item_name, outcome |-> outcome, n |-> n]

NoTrip == [stage |-> 0, item_name |-> "", before |-> <<>>]

\* stage 1: the last request was an increment of item_name, taken from
\* `before`; stage 2: a decrement of the same name followed it directly
Trip(action, item_name) ==
    IF action = "increment"
    THEN [stage |-> 1, item_name |-> item_name, before |-> items]
    ELSE IF action = "decrement" /\ rt.stage = 1 /\ rt.item_name = item_name
         THEN [stage |-> 2, item_name |-> item_name, before |-> rt.before]
         ELSE NoTrip

\* no commit in flight
NoCommit == [pc |-> "idle", i |-> 0, rows |-> <<>>, snap |-> <<>>, win |-> <<>>, dec |-> {}]

\* no logout in flight
NoLogout == [pc |-> "idle", user_name |-> "", t |-> calculate_total(<<>>),
             sorted |-> <<>>, inserted |-> FALSE]

\* one more request is handled, as a whole
Handled ==
    /\ requests < MaxRequests
    /\ requests' = requests + 1
    /\ UNCHANGED <<cm, lg>>

\* ------------------------------------------------------------------- Init
\* module load: items from the catalog, item records seeded into the empty
\* store, total_co2 not yet bound
Init ==
    /\ items = Catalog
    /\ total_co2 = <<>>
    /\ db_items = mongo_insert_items(items)
    /\ db_sessions = <<>>
    /\ db_logs = <<>>
    /\ last = Seen("start", "", "", "ok", 0)
    /\ rt = NoTrip
    /\ requests = 0
    /\ cm = NoCommit
    /\ lg = NoLogout

\* ---------------------------------------------------------------- actions
\* GET /: the total is a local of the handler, nothing is written
demo ==
    /\ UNCHANGED <<items, total_co2, db_items, db_sessions, db_logs>>
    /\ last' = Seen("GET /", "", "", "ok", 0)
    /\ rt' = NoTrip
    /\ Handled

\* variant: the handler also writes the matched items through to the store
UpdateCountStep_write_through(route, action, item_name) ==
    /\ \A c \in DOMAIN items : \A i \in DOMAIN items[c].items :
          update_items(items, action, item_name)[c].items[i].count <= MaxCount
    /\ items' = update_items(items, action, item_name)
    /\ db_items' = persist(db_items,
                       SelectSeq(Flatten(update_items(items, action, item_name)),
                                 LAMBDA r : r.name = item_name),
                       Len(SelectSeq(Flatten(items), LAMBDA r : r.name = item_name)))
    /\ UNCHANGED <<total_co2, db_sessions, db_logs>>
    /\ last' = Seen(route, action, item_name, "ok", 0)
    /\ rt' = Trip(action, item_name)
    /\ Handled

\* the body shared by POST / and POST /main
UpdateCountStep(route, action, item_name) ==
    /\ \A c \in DOMAIN items : \A i \in DOMAIN items[c].items :
          update_items(items, action, item_name)[c].items[i].count <= MaxCount
    /\ items' = update_items(items, action, item_name)
    /\ UNCHANGED <<total_co2, db_items, db_sessions, db_logs>>
    /\ last' = Seen(route, action, item_name, "ok", 0)
    /\ rt' = Trip(action, item_name)
    /\ Handled

\* POST /
update_count_demo ==
    \E action \in FormActions, item_name \in ItemNames :
        UpdateCountStep("POST /", action, item_name)

\* POST /reset
renew_demo ==
    /\ items' = reset_items(items)
    /\ UNCHANGED <<total_co2, db_items, db_sessions, db_logs>>
    /\ last' = Seen("POST /reset", "", "", "ok", 0)
    /\ rt' = NoTrip
    /\ Handled

\* variant: no `global total_co2`, the sum stays a local as in GET /
main_local_total ==
    /\ UNCHANGED <<items, total_co2, db_items, db_sessions, db_logs>>
    /\ last' = Seen("GET /main", "", "", "ok", 0)
    /\ rt' = NoTrip
    /\ Handled

\* GET /main: binds the process-wide total_co2; the store is only read
main ==
    /\ total_co2' = <<sum_co2(items)>>
    /\ UNCHANGED <<items, db_items, db_sessions, db_logs>>
    /\ last' = Seen("GET /main", "", "", "ok", 0)
    /\ rt' = NoTrip
    /\ Handled

\* POST /main
update_count ==
    \E action \in FormActions, item_name \in ItemNames :
        UpdateCountStep("POST /main", action, item_name)

\* POST /main/reset. fail = 0: no store call raises; fail = k: the k-th store
\* call of the handler raises (the update_item calls in loop order, then
\* insert_session). last.n is the number of update_item calls that returned.
RenewStep(fail) ==
    LET rows == exchanged(items)
        n == Len(rows)
    IN  /\ rt' = NoTrip
        /\ Handled
        /\ UNCHANGED <<total_co2, db_logs>>
        /\ IF fail \in 1..n
           THEN /\ db_items' = persist(db_items, rows, fail - 1)
                /\ items' = items_after_error(items)
                /\ UNCHANGED db_sessions
                /\ last' = Seen("POST /main/reset", "", "", "store_error", fail - 1)
           ELSE /\ db_items' = persist(db_items, rows, n)
                /\ IF total_co2 = <<>>
                   THEN \* NameError at `if total_co2 > 0`
                        /\ fail = 0
                        /\ items' = items_after_error(items)
                        /\ UNCHANGED db_sessions
                        /\ last' = Seen("POST /main/reset", "", "", "name_error", n)
                   ELSE IF session_due(total_co2)
                   THEN /\ Len(db_sessions) < MaxSessions
                        /\ IF fail = n + 1
                           THEN /\ items' = items_after_error(items)
                                /\ UNCHANGED db_sessions
                                /\ last' = Seen("POST /main/reset", "", "", "store_error", n)
                           ELSE /\ db_sessions' =
                                      mongo_insert_session(db_sessions, total_co2[1],
                                          calculate_equivalents(total_co2[1]), exc_items(rows))
                                /\ items' = reset_items(items)
                                /\ last' = Seen("POST /main/reset", "", "", "ok", n)
                   ELSE /\ fail = 0
                        /\ UNCHANGED db_sessions
                        /\ items' = reset_items(items)
                        /\ last' = Seen("POST /main/reset", "", "", "ok", n)

renew == \E fail \in 0..(Len(exchanged(items)) + 1) : RenewStep(fail)

\* variant: `>=` for `>`
archive_due_always(session_count) == session_count >= 0

\* `if session_count > 0`
archive_due(session_count) == session_count > 0

\* variant: the ledger is not cleared after archiving
LogoutStep_no_clear(user_name) ==
    LET t == calculate_total(db_sessions)
    IN  /\ UNCHANGED <<items, total_co2, db_sessions>>
        /\ rt' = NoTrip
        /\ Handled
        /\ last' = Seen("POST /main/logout", "", "", "ok", t.session_count)
        /\ IF archive_due(t.session_count)
           THEN /\ Len(db_logs) < MaxArchive
                /\ db_logs' = mongo_log_out(db_logs, user_name, t.session_count,
                                  sort_updated_items(rearrange_updated_items(db_items)),
                                  t.totals)
                /\ db_items' = mongo_reset_counts(db_items, items)
           ELSE UNCHANGED <<db_items, db_logs>>

\* variant: the logout also resets the in-memory table
LogoutStep_reset_table(user_name) ==
    LET t == calculate_total(db_sessions)
    IN  /\ items' = reset_items(items)
        /\ UNCHANGED total_co2
        /\ rt' = NoTrip
        /\ Handled
        /\ last' = Seen("POST /main/logout", "", "", "ok", t.session_count)
        /\ IF archive_due(t.session_count)
           THEN /\ Len(db_logs) < MaxArchive
                /\ db_logs' = mongo_log_out(db_logs, user_name, t.session_count,
                                  sort_updated_items(rearrange_updated_items(db_items)),
                                  t.totals)
                /\ db_items' = mongo_reset_counts(db_items, items)
                /\ db_sessions' = mongo_clear_sessions(db_sessions)
           ELSE UNCHANGED <<db_items, db_sessions, db_logs>>

\* POST /main/logout. last.n is the session_count the handler found.
LogoutStep(user_name) ==
    LET t == calculate_total(db_sessions)
    IN  /\ UNCHANGED <<items, total_co2>>
        /\ rt' = NoTrip
        /\ Handled
        /\ last' = Seen("POST /main/logout", "", "", "ok", t.session_count)
        /\ IF archive_due(t.session_count)
           THEN /\ Len(db_logs) < MaxArchive
                /\ db_logs' = mongo_log_out(db_logs, user_name, t.session_count,
                                  sort_updated_items(rearrange_updated_items(db_items)),
                                  t.totals)
                /\ db_items' = mongo_reset_counts(db_items, items)
                /\ db_sessions' = mongo_clear_sessions(db_sessions)
           ELSE UNCHANGED <<db_items, db_sessions, db_logs>>

logout == \E user_name \in UserNames : LogoutStep(user_name)

\* variant: the administrative reset also resets the in-memory table
reset_count_and_table ==
    /\ db_items' = mongo_reset_counts(db_items, items)
    /\ items' = reset_items(items)
    /\ UNCHANGED <<total_co2, db_sessions, db_logs>>
    /\ last' = Seen("GET /main/reset_DBS", "", "", "ok", 0)
    /\ rt' = NoTrip
    /\ Handled

\* GET /main/reset_DBS
reset_count ==
    /\ db_items' = mongo_reset_counts(db_items, items)
    /\ UNCHANGED <<items, total_co2, db_sessions, db_logs>>
    /\ last' = Seen("GET /main/reset_DBS", "", "", "ok", 0)
    /\ rt' = NoTrip
    /\ Handled

\* GET /main/clear_SOS
clear_sessions ==
    /\ db_sessions' = mongo_clear_sessions(db_sessions)
    /\ UNCHANGED <<items, total_co2, db_items, db_logs>>
    /\ last' = Seen("GET /main/clear_SOS", "", "", "ok", 0)
    /\ rt' = NoTrip
    /\ Handled

\* requests are handled one at a time, in any order
Next ==
    \/ demo
    \/ update_count_demo
    \/ renew_demo
    \/ main
    \/ update_count
    \/ renew
    \/ logout
    \/ reset_count
    \/ clear_sessions

Spec == Init /\ [][Next]_vars

\* ------------------------------------------------- interleaved handlers
\* The handlers are plain `def`s, which the framework runs on worker threads:
\* a commit and a logout advance one loop iteration or one store call at a
\* time while other requests are handled in between. At most one commit and
\* one logout are in flight; increment/decrement and GET /main are taken as
\* one step; no store call raises.

RECURSIVE FlatPosFrom(_, _)
FlatPosFrom(its, c) ==
    IF c > Len(its) THEN <<>>
    ELSE [i \in DOMAIN its[c].items |-> <<c, i>>] \o FlatPosFrom(its, c + 1)

\* the positions <<category index, item index>> in iteration order
FlatPos(its) == FlatPosFrom(its, 1)

\* the k-th item of the iteration is, in this state, between the commit's
\* first loop (which persisted and collected it) and the commit's reset of it
InWindow(k) ==
    \/ cm.pc = "scan" /\ k < cm.i
    \/ cm.pc = "test"
    \/ cm.pc = "reset" /\ k >= cm.i

\* the iteration indexes of the items an update of that name changes
Matched(its, item_name) ==
    {k \in DOMAIN FlatPos(its) :
        FlatPos(its)[k][2] = FirstMatch(its[FlatPos(its)[k][1]].items, item_name)}

\* one more request is started
Started == requests < MaxConcRequests /\ requests' = requests + 1

\* GET /main
ConcMain ==
    /\ Started
    /\ total_co2' = <<sum_co2(items)>>
    /\ UNCHANGED <<items, db_items, db_sessions, db_logs, last, rt, cm, lg>>

\* POST / and POST /main; cm.win counts the increments, cm.dec marks the
\* other updates, that reach an item inside the window of the commit in flight
ConcUpdateStep(action, item_name) ==
    /\ Started
    /\ \A c \in DOMAIN items : \A i \in DOMAIN items[c].items :
          update_items(items, action, item_name)[c].items[i].count <= MaxCount
    /\ items' = update_items(items, action, item_name)
    /\ cm' = IF cm.pc = "idle" THEN cm
             ELSE [cm EXCEPT
                     !.win = [k \in DOMAIN cm.win |->
                                IF k \in Matched(items, item_name) /\ InWindow(k)
                                   /\ action = "increment"
                                THEN cm.win[k] + 1 ELSE cm.win[k]],
                     !.dec = cm.dec \cup {k \in Matched(items, item_name) :
                                            InWindow(k) /\ action # "increment"}]
    /\ UNCHANGED <<total_co2, db_items, db_sessions, db_logs, last, rt, lg>>

ConcUpdate ==
    \E action \in FormActions, item_name \in ItemNames : ConcUpdateStep(action, item_name)

\* POST /main/reset is entered: exc_items = {}
RenewStartStep ==
    /\ cm.pc = "idle"
    /\ Started
    /\ cm' = [pc |-> "scan", i |-> 1, rows |-> <<>>, snap |-> <<>>,
              win |-> [k \in DOMAIN FlatPos(items) |-> 0], dec |-> {}]
    /\ UNCHANGED <<items, total_co2, db_items, db_sessions, db_logs, last, rt, lg>>

\* one iteration of the first loop: the item is persisted and collected when
\* its count or co2 is > 0; cm.snap keeps the count the iteration saw
RenewScanStep ==
    /\ cm.pc = "scan"
    /\ LET row == Flatten(items)[cm.i]
           take == row.count > 0 \/ row.co2 > 0
       IN /\ db_items' = IF take
                         THEN mongo_update_item(db_items, row.category, row.name,
                                                row.count, row.co2)
                         ELSE db_items
          /\ cm' = [cm EXCEPT !.rows = IF take THEN Append(@, row) ELSE @,
                              !.snap = Append(@, row.count),
                              !.i = @ + 1,
                              !.pc = IF cm.i = Len(Flatten(items)) THEN "test" ELSE "scan"]
    /\ UNCHANGED <<items, total_co2, db_sessions, db_logs, last, rt, requests, lg>>

\* `if total_co2 > 0`: NameError while unbound, else the record is inserted
\* when due; lg.inserted marks an insert during a logout in flight
RenewTestStep ==
    /\ cm.pc = "test"
    /\ IF total_co2 = <<>>
       THEN /\ cm' = [cm EXCEPT !.pc = "error"]
            /\ UNCHANGED <<db_sessions, lg>>
       ELSE IF session_due(total_co2)
       THEN /\ Len(db_sessions) < MaxSessions
            /\ db_sessions' = mongo_insert_session(db_sessions, total_co2[1],
                                  calculate_equivalents(total_co2[1]), exc_items(cm.rows))
            /\ cm' = [cm EXCEPT !.pc = "reset", !.i = 1]
            /\ lg' = IF lg.pc = "idle" THEN lg ELSE [lg EXCEPT !.inserted = TRUE]
       ELSE /\ cm' = [cm EXCEPT !.pc = "reset", !.i = 1]
            /\ UNCHANGED <<db_sessions, lg>>
    /\ UNCHANGED <<items, total_co2, db_items, db_logs, last, rt, requests>>

\* variant: the iteration moves on without resetting the item
RenewResetStep_skip ==
    /\ cm.pc = "reset"
    /\ cm' = [cm EXCEPT !.i = @ + 1,
                        !.pc = IF cm.i = Len(FlatPos(items)) THEN "done" ELSE "reset"]
    /\ UNCHANGED <<items, total_co2, db_items, db_sessions, db_logs, last, rt, requests, lg>>

\* one iteration of the reset loop
RenewResetStep ==
    /\ cm.pc = "reset"
    /\ items' = [items EXCEPT ![FlatPos(items)[cm.i][1]].items[FlatPos(items)[cm.i][2]] =
                                 reset_item(@)]
    /\ cm' = [cm EXCEPT !.i = @ + 1,
                        !.pc = IF cm.i = Len(FlatPos(items)) THEN "done" ELSE "reset"]
    /\ UNCHANGED <<total_co2, db_items, db_sessions, db_logs, last, rt, requests, lg>>

\* the redirect is returned, or the exception re-raised
RenewReturnStep ==
    /\ cm.pc \in {"done", "error"}
    /\ cm' = NoCommit
    /\ UNCHANGED <<items, total_co2, db_items, db_sessions, db_logs, last, rt, requests, lg>>

\* POST /main/logout is entered: calculate_total(mongo.get_all_sessions())
LogoutReadStep(user_name) ==
    /\ lg.pc = "idle"
    /\ Started
    /\ LET t == calculate_total(db_sessions)
       IN IF archive_due(t.session_count)
          THEN /\ Len(db_logs) < MaxArchive
               /\ lg' = [pc |-> "get_items", user_name |-> user_name, t |-> t,
                         sorted |-> <<>>, inserted |-> FALSE]
          ELSE lg' = [NoLogout EXCEPT !.pc = "return", !.user_name = user_name]
    /\ UNCHANGED <<items, total_co2, db_items, db_sessions, db_logs, last, rt, cm>>

LogoutRead == \E user_name \in UserNames : LogoutReadStep(user_name)

\* get_updated_items, rearranged and sorted
LogoutItemsStep ==
    /\ lg.pc = "get_items"
    /\ lg' = [lg EXCEPT !.pc = "log_out",
                        !.sorted = sort_updated_items(rearrange_updated_items(db_items))]
    /\ UNCHANGED <<items, total_co2, db_items, db_sessions, db_logs, last, rt, requests, cm>>

\* variant: the number of sorted items is passed as the session count
LogoutLogStep_wrong_count ==
    /\ lg.pc = "log_out"
    /\ db_logs' = mongo_log_out(db_logs, lg.user_name, Len(lg.sorted), lg.sorted, lg.t.totals)
    /\ lg' = [lg EXCEPT !.pc = "reset_counts"]
    /\ UNCHANGED <<items, total_co2, db_items, db_sessions, last, rt, requests, cm>>

\* mongo.log_out(user_name, sessions=session_count, sorted_items, total=totals)
LogoutLogStep ==
    /\ lg.pc = "log_out"
    /\ db_logs' = mongo_log_out(db_logs, lg.user_name, lg.t.session_count, lg.sorted,
                                lg.t.totals)
    /\ lg' = [lg EXCEPT !.pc = "reset_counts"]
    /\ UNCHANGED <<items, total_co2, db_items, db_sessions, last, rt, requests, cm>>

\* mongo.reset_counts(items)
LogoutResetStep ==
    /\ lg.pc = "reset_counts"
    /\ db_items' = mongo_reset_counts(db_items, items)
    /\ lg' = [lg EXCEPT !.pc = "clear"]
    /\ UNCHANGED <<items, total_co2, db_sessions, db_logs, last, rt, requests, cm>>

\* mongo.clear_sessions()
LogoutClearStep ==
    /\ lg.pc = "clear"
    /\ db_sessions' = mongo_clear_sessions(db_sessions)
    /\ lg' = [lg EXCEPT !.pc = "return"]
    /\ UNCHANGED <<items, total_co2, db_items, db_logs, last, rt, requests, cm>>

\* the redirect is returned, the cookie cleared
LogoutReturnStep ==
    /\ lg.pc = "return"
    /\ lg' = NoLogout
    /\ UNCHANGED <<items, total_co2, db_items, db_sessions, db_logs, last, rt, requests, cm>>

NextConc ==
    \/ ConcMain
    \/ ConcUpdate
    \/ RenewStartStep
    \/ RenewScanStep
    \/ RenewTestStep
    \/ RenewResetStep
    \/ RenewReturnStep
    \/ LogoutRead
    \/ LogoutItemsStep
    \/ LogoutLogStep
    \/ LogoutResetStep
    \/ LogoutClearStep
    \/ LogoutReturnStep

SpecConc == Init /\ [][NextConc]_vars

\* =================================================================== claims
\* the positions <<category index, item index>> of a table
AllItems(its) == UNION {{<<c, i>> : i \in DOMAIN its[c].items} : c \in DOMAIN its}

ItemAt(its, ci) == its[ci[1]].items[ci[2]]

AllZero(its) == \A ci \in AllItems(its) : ItemAt(its, ci).count = 0 /\ ItemAt(its, ci).co2 = 0

\* the persisted record of that category and name
DbRecord(db, category, name) ==
    LET c == CHOOSE c \in DOMAIN db : db[c].category = category
    IN db[c].items[FirstMatch(db[c].items, name)]

\* the step just taken handled this request
Did(op) == last'.op = op /\ requests' = requests + 1

IsUpdate(op) == op \in {"POST /", "POST /main"}

\* C1: in every reachable state every item of the in-memory table has
\* co2 = count * base_co2.
C1_Co2Invariant ==
    \A ci \in AllItems(items) :
        ItemAt(items, ci).co2 = ItemAt(items, ci).count * ItemAt(items, ci).base_co2

\* an increment has brought an item to count 2, co2 twice its base
C1_Witness ==
    /\ IsUpdate(last.op) /\ last.action = "increment"
    /\ \E ci \in AllItems(items) :
          ItemAt(items, ci).count = 2 /\ ItemAt(items, ci).co2 = 2 * ItemAt(items, ci).base_co2

\* C2: a commit that runs while the in-memory co2 sum is positive (and that no
\* store failure interrupts) adds exactly one Session Record, whose total_co2
\* is that sum and whose exchanged_items are the items with count > 0.
C2_CommitWritesCurrentTotal ==
    [][ (Did("POST /main/reset") /\ last'.outcome = "ok" /\ sum_co2(items) > 0)
        => /\ Len(db_sessions') = Len(db_sessions) + 1
           /\ SubSeq(db_sessions', 1, Len(db_sessions)) = db_sessions
           /\ db_sessions'[Len(db_sessions')].total_co2 = sum_co2(items)
           /\ db_sessions'[Len(db_sessions')].exchanged_items = exc_items(exchanged(items))
      ]_vars

\* C3: a commit that runs while every in-memory count is 0 leaves the Session
\* Ledger as it was.
C3_ZeroCommitWritesNothing ==
    [][ (Did("POST /main/reset") /\ \A ci \in AllItems(items) : ItemAt(items, ci).count = 0)
        => db_sessions' = db_sessions
      ]_vars

RECURSIVE LedgerSum(_, _)
\* total_co2 of the first k records of the ledger, added up
LedgerSum(ledger, k) ==
    IF k = 0 THEN 0 ELSE LedgerSum(ledger, k - 1) + ledger[k].total_co2

\* C4: a logout that finds N > 0 Session Records empties the ledger, appends
\* exactly one archive entry with session count N and the summed total_co2 of
\* the N records, and leaves every persisted item count at 0.
C4_LogoutArchives ==
    [][ (Did("POST /main/logout") /\ Len(db_sessions) > 0)
        => /\ db_sessions' = <<>>
           /\ Len(db_logs') = Len(db_logs) + 1
           /\ SubSeq(db_logs', 1, Len(db_logs)) = db_logs
           /\ db_logs'[Len(db_logs')].sessions = Len(db_sessions)
           /\ db_logs'[Len(db_logs')].total.total_co2 = LedgerSum(db_sessions, Len(db_sessions))
           /\ \A ci \in AllItems(db_items') : ItemAt(db_items', ci).count = 0
      ]_vars

\* a logout found two records and archived them
C4_Witness ==
    /\ last.op = "POST /main/logout" /\ last.n = 2
    /\ db_sessions = <<>>
    /\ db_logs # <<>>
    /\ db_logs[Len(db_logs)].sessions = 2
    /\ db_logs[Len(db_logs)].total.total_co2 > 0

\* C5: a logout that finds no Session Record writes no archive entry and
\* leaves the persisted item records and the ledger as they were.
C5_EmptyLogoutWritesNothing ==
    [][ (Did("POST /main/logout") /\ Len(db_sessions) = 0)
        => UNCHANGED <<db_logs, db_items, db_sessions>>
      ]_vars

\* a logout found no record while the store held a nonzero item count
C5_Witness ==
    /\ last.op = "POST /main/logout" /\ last.n = 0
    /\ db_logs = <<>>
    /\ \E ci \in AllItems(db_items) : ItemAt(db_items, ci).count > 0

\* C6: after a commit that completed without an error every in-memory item
\* has count 0 and co2 0.
C6_CommitResets ==
    (last.op = "POST /main/reset" /\ last.outcome = "ok") => AllZero(items)

\* a commit persisted two items and completed
C6_Witness ==
    /\ last.op = "POST /main/reset" /\ last.outcome = "ok" /\ last.n >= 2
    /\ AllZero(items)

\* C7: a commit in which a store write fails leaves the in-memory table and
\* the ledger as they were, and the item writes made before the failure are
\* in the store.
C7_FailedCommit ==
    [][ (Did("POST /main/reset") /\ last'.outcome = "store_error")
        => /\ items' = items
           /\ db_sessions' = db_sessions
           /\ last'.n <= Len(exchanged(items))
           /\ \A k \in 1..last'.n :
                 LET row == exchanged(items)[k]
                     rec == DbRecord(db_items', row.category, row.name)
                 IN rec.count = row.count /\ rec.co2 = row.co2
      ]_vars

\* a commit failed after one item write: the table still holds the counts,
\* the store holds the first of them
C7_Witness ==
    /\ last.op = "POST /main/reset" /\ last.outcome = "store_error" /\ last.n = 1
    /\ Len(exchanged(items)) >= 2
    /\ DbRecord(db_items, exchanged(items)[1].category, exchanged(items)[1].name).count
          = exchanged(items)[1].count
    /\ DbRecord(db_items, exchanged(items)[2].category, exchanged(items)[2].name).count
          # exchanged(items)[2].count

\* C8: an increment or decrement leaves the item records, the ledger and the
\* archive as they were; the item records change only in a commit, a logout
\* or an administrative reset, the ledger grows only in a commit.
C8_UpdateTouchesNoStore ==
    [][ /\ (IsUpdate(last'.op) /\ requests' = requests + 1)
            => UNCHANGED <<db_items, db_sessions, db_logs>>
        /\ db_items' # db_items
            => last'.op \in {"POST /main/reset", "POST /main/logout", "GET /main/reset_DBS"}
        /\ Len(db_sessions') > Len(db_sessions) => last'.op = "POST /main/reset"
      ]_vars

\* an increment was handled while the table was ahead of the store and the
\* ledger held a record
C8_Witness ==
    /\ IsUpdate(last.op) /\ last.action = "increment" /\ last.item_name = "B"
    /\ ItemAt(items, <<1, 2>>).count = 2
    /\ ItemAt(db_items, <<1, 2>>).count = 1
    /\ Len(db_sessions) = 1

\* C9: in every reachable state every in-memory count is >= 0.
C9_CountNonNegative ==
    \A ci \in AllItems(items) : ItemAt(items, ci).count >= 0

\* the first request was a decrement of B, whose count was 0 and is 0
C9_Witness ==
    /\ requests = 1
    /\ IsUpdate(last.op) /\ last.action = "decrement" /\ last.item_name = "B"
    /\ ItemAt(items, <<1, 2>>).count = 0

\* C10: after an increment of a name directly followed by a decrement of the
\* same name the whole table, and so every (count, co2), is as it was before
\* the increment.
C10_IncrementDecrement ==
    rt.stage = 2 => items = rt.before

\* A was incremented from count 1 and decremented again
C10_Witness ==
    /\ rt.stage = 2 /\ rt.item_name = "A"
    /\ ItemAt(rt.before, <<1, 1>>).count = 1
    /\ ItemAt(items, <<1, 1>>).count = 1

\* C11: every Session Record of the ledger has total_co2 > 0; a step leaves
\* the ledger as it was, or appends one record to it (a commit), or empties
\* a nonempty ledger (a logout or the administrative clear-sessions): no
\* record is changed or removed singly.
C11_LedgerRecords ==
    [][ /\ \A k \in DOMAIN db_sessions' : db_sessions'[k].total_co2 > 0
        /\ \/ db_sessions' = db_sessions
           \/ /\ Len(db_sessions') = Len(db_sessions) + 1
              /\ SubSeq(db_sessions', 1, Len(db_sessions)) = db_sessions
              /\ last'.op = "POST /main/reset"
           \/ /\ db_sessions' = <<>>
              /\ db_sessions # <<>>
              /\ last'.op \in {"POST /main/logout", "GET /main/clear_SOS"}
      ]_vars

\* a second commit has appended a record to a ledger that held one
C11_Witness ==
    /\ last.op = "POST /main/reset" /\ last.outcome = "ok"
    /\ Len(db_sessions) = 2
    /\ db_sessions[1].total_co2 > 0 /\ db_sessions[2].total_co2 > 0

\* the first position, in category-then-item order, of an item of that name
FirstPos(its, item_name) ==
    LET hits == {ci \in AllItems(its) : ItemAt(its, ci).name = item_name}
    IN IF hits = {} THEN <<0, 0>>
       ELSE CHOOSE ci \in hits :
               \A o \in hits : ci[1] < o[1] \/ (ci[1] = o[1] /\ ci[2] <= o[2])

\* C12: an increment or decrement changes no item but the first of that name
\* in category-then-item order.
C12_OnlyFirstMatchChanges ==
    [][ (IsUpdate(last'.op) /\ requests' = requests + 1)
        => \A ci \in AllItems(items) :
              ci # FirstPos(items, last'.item_name) => ItemAt(items', ci) = ItemAt(items, ci)
      ]_vars

\* C13: an increment or decrement whose item_name matches no item ends
\* without an error and leaves the table, total_co2 and the store as they were.
C13_LookupMissNoOp ==
    [][ ( /\ IsUpdate(last'.op) /\ requests' = requests + 1
          /\ \A ci \in AllItems(items) : ItemAt(items, ci).name # last'.item_name )
        => /\ last'.outcome = "ok"
           /\ UNCHANGED <<items, total_co2, db_items, db_sessions, db_logs>>
      ]_vars

\* an increment of a name no item has was handled while the table held counts
C13_Witness ==
    /\ IsUpdate(last.op) /\ last.action = "increment" /\ last.item_name = "nosuch"
    /\ sum_co2(items) > 0

\* C15: the administrative reset zeroes the persisted item counts and leaves
\* the ledger, the archive and the in-memory table as they were; the
\* administrative clear-sessions empties the ledger and leaves the archive,
\* the item records and the in-memory table as they were; each can be
\* requested in every state (short of the bound on the length of a run).
C15_AdminRoutes ==
    /\ [](requests < MaxRequests => (ENABLED reset_count /\ ENABLED clear_sessions))
    /\ [][ /\ Did("GET /main/reset_DBS")
               => /\ \A ci \in AllItems(db_items') : ItemAt(db_items', ci).count = 0
                  /\ UNCHANGED <<items, total_co2, db_sessions, db_logs>>
           /\ Did("GET /main/clear_SOS")
               => /\ db_sessions' = <<>>
                  /\ UNCHANGED <<items, total_co2, db_items, db_logs>>
         ]_vars

\* the administrative reset ran while the table held uncommitted counts and
\* the ledger a record
C15_Witness ==
    /\ last.op = "GET /main/reset_DBS"
    /\ sum_co2(items) > 0
    /\ db_sessions # <<>>
    /\ \A ci \in AllItems(db_items) : ItemAt(db_items, ci).count = 0

\* C17: total_co2 is changed by GET /main only, which binds it to the sum of
\* the in-memory co2 at that time; a commit that no store failure interrupts
\* writes a record exactly when that bound value is > 0, and the record
\* carries that value, whatever the table holds at the commit.
C17_CommitUsesBoundTotal ==
    [][ /\ Did("GET /main") => total_co2' = <<sum_co2(items)>>
        /\ total_co2' # total_co2 => last'.op = "GET /main"
        /\ (Did("POST /main/reset") /\ last'.outcome = "ok")
            => /\ total_co2 # <<>>
               /\ IF total_co2[1] > 0
                  THEN /\ Len(db_sessions') = Len(db_sessions) + 1
                       /\ db_sessions'[Len(db_sessions')].total_co2 = total_co2[1]
                  ELSE db_sessions' = db_sessions
      ]_vars

\* a commit found nothing to persist and wrote a record with the total bound
\* by an earlier GET /main
C17_Witness ==
    /\ last.op = "POST /main/reset" /\ last.outcome = "ok" /\ last.n = 0
    /\ db_sessions # <<>>
    /\ db_sessions[Len(db_sessions)].total_co2 = total_co2[1]
    /\ db_sessions[Len(db_sessions)].exchanged_items = exc_items(<<>>)

\* C18: a commit handled while total_co2 is unbound, and that no store
\* failure interrupts before, ends in an error: no record is written, the
\* table is not reset, and every item with count > 0 has been persisted.
C18_CommitBeforeMain ==
    [][ (Did("POST /main/reset") /\ total_co2 = <<>> /\ last'.outcome # "store_error")
        => /\ last'.outcome = "name_error"
           /\ items' = items
           /\ db_sessions' = db_sessions
           /\ \A k \in DOMAIN exchanged(items) :
                 LET row == exchanged(items)[k]
                     rec == DbRecord(db_items', row.category, row.name)
                 IN rec.count = row.count /\ rec.co2 = row.co2
      ]_vars

\* a commit ended in the NameError with B at count 2 in the table and in the store
C18_Witness ==
    /\ last.op = "POST /main/reset" /\ last.outcome = "name_error"
    /\ total_co2 = <<>>
    /\ ItemAt(items, <<1, 2>>).count = 2
    /\ ItemAt(db_items, <<1, 2>>).count = 2
    /\ db_sessions = <<>>

C14_RaceLosesIncrement ==
    [][ /\ (cm.pc = "test" /\ Len(db_sessions') > Len(db_sessions))
            => db_sessions'[Len(db_sessions')].exchanged_items = exc_items(cm.rows)
        /\ \A k \in DOMAIN FlatPos(items) :
              (cm.pc = "reset" /\ cm.i = k /\ cm'.i = k + 1)
              => LET pos == FlatPos(items)[k]
                     row == Flatten(items)[k]
                 IN /\ (cm.snap[k] > 0 /\ cm.win[k] > 0 /\ k \notin cm.dec)
                        => /\ row.count = cm.snap[k] + cm.win[k]
                           /\ ItemAt(items', pos).count = 0
                           /\ ItemAt(items', pos).co2 = 0
                           /\ \E r \in DOMAIN cm.rows :
                                 /\ cm.rows[r].category = row.category
                                 /\ cm.rows[r].name = row.name
                                 /\ cm.rows[r].count = cm.snap[k]
                           /\ DbRecord(db_items, row.category, row.name).count <= cm.snap[k]
                    /\ (cm.win[k] = 0 /\ k \notin cm.dec) => row.count = cm.snap[k]
      ]_vars

\* a commit has finished; the first item was collected at count 1, incremented
\* before its reset, and is now 0 in the table and 1 in the store and the record
C14_Witness ==
    /\ cm.pc = "done"
    /\ cm.snap[1] = 1 /\ cm.win[1] = 1 /\ 1 \notin cm.dec
    /\ ItemAt(items, <<1, 1>>).count = 0
    /\ ItemAt(db_items, <<1, 1>>).count = 1
    /\ db_sessions # <<>>
    /\ db_sessions[Len(db_sessions)].exchanged_items = exc_items(cm.rows)
    /\ cm.rows[1].count = 1

\* C16: (interleaved handlers) the records a logout deletes are the ones its
\* archive entry counts and sums.
C16_LogoutArchivesAllDeleted ==
    [][ (lg.pc = "clear" /\ lg'.pc = "return")
        => /\ db_logs[Len(db_logs)].sessions = Len(db_sessions)
           /\ db_logs[Len(db_logs)].total.total_co2 = LedgerSum(db_sessions, Len(db_sessions))
      ]_vars

\* C16, amended: the same, for a logout during which no commit inserted a
\* Session Record.
C16_LogoutArchivesAllDeletedUnlessInsert ==
    [][ (lg.pc = "clear" /\ lg'.pc = "return" /\ ~lg.inserted)
        => /\ db_logs[Len(db_logs)].sessions = Len(db_sessions)
           /\ db_logs[Len(db_logs)].total.total_co2 = LedgerSum(db_sessions, Len(db_sessions))
      ]_vars

\* a logout that read two records has archived and deleted them, no commit
\* having inserted a record meanwhile
C16_Witness ==
    /\ lg.pc = "return" /\ ~lg.inserted
    /\ lg.t.session_count = 2
    /\ db_sessions = <<>>
    /\ db_logs # <<>>
    /\ db_logs[Len(db_logs)].sessions = 2

====
